---- MODULE Spec2Model ----
(***************************************************************************)
(* csv-image: a batch converter that reads rows "<identifier>,<base-64>"   *)
(* from a CSV file, decodes each payload as an image and re-encodes it     *)
(* into the output directory, dumping undecodable payloads to a .txt file. *)
(*                                                                         *)
(* src/csv-image.go holds two variants of the program:                     *)
(*   - the concurrent variant (lines 179-371): one goroutine per row and   *)
(*     a sync.WaitGroup barrier; modelled by Next / Spec;                  *)
(*   - the sequential variant (lines 1-177): rows are processed inline by  *)
(*     main; modelled by SeqNext / SeqSpec.                                *)
(*                                                                         *)
(* Abstractions.  A payload is a sequence of 4-character base-64 quanta,   *)
(* each decoding to three bytes (written as hex strings).  A file's        *)
(* content is a sequence of such tokens.  The environment (can the output  *)
(* directory be created, can a path be opened, how many tokens does a      *)
(* write deliver before failing) is a nondeterministic choice, decided the *)
(* first time it is asked and remembered, so that a second run of the      *)
(* program meets the same environment.                                     *)
(***************************************************************************)
EXTENDS Integers, Sequences, FiniteSets, TLC

\* Bounds of the model.
MaxRows == 2
MaxOld == 7

VARIABLES
    rows,             \* the CSV file: a sequence of rows, each a sequence of fields
    csvReadable,      \* whether os.Open / ReadAll of the CSV file succeed
    creatable,        \* whether the output directory can be created when absent
    fs,               \* the file system below the working directory
    perm,             \* paths whose openability has been decided: [ok, no]
    mainpc,           \* position of main
    pos,              \* number of rows consumed by reader.Read
    fieldsPerRecord,  \* csv.Reader.FieldsPerRecord (0: not yet fixed)
    wg,               \* the sync.WaitGroup counter
    exitCode,         \* process exit status, -1 while running
    finalMsg,         \* whether "Done! Check ... for image output." was printed
    w,                \* per row: the state of its base64ToImage call
    run,              \* which run of the program this is (1 or 2)
    snap              \* the file system as the first run left it

vars == <<rows, csvReadable, creatable, fs, perm, mainpc, pos, fieldsPerRecord,
          wg, exitCode, finalMsg, w, run, snap>>

(***************************************************************************)
(* Inputs                                                                  *)
(***************************************************************************)
outputDir == "output"

IdOf(i) == <<"id1", "id2", "id3", "id4">>[i]

\* Base-64 quanta and the three bytes each one decodes to.
Quanta == {"/9j/", "iVBO", "R0lG", "AAAA"}

QuantumBytes(q) ==
    CASE q = "/9j/" -> <<"ff", "d8", "ff">>
      [] q = "iVBO" -> <<"89", "50", "4e">>
      [] q = "R0lG" -> <<"47", "49", "46">>
      [] q = "AAAA" -> <<"00", "00", "00">>

JpegData  == <<"/9j/", "AAAA">>   \* a JPEG image
PngData   == <<"iVBO", "AAAA">>   \* a PNG image
GifData   == <<"R0lG", "AAAA">>   \* a GIF image: no decoder is registered for it
BadData   == <<"not!">>           \* not base-64
TruncData == <<"/9j/">>           \* a JPEG signature and nothing after it

Payloads == {JpegData, PngData, GifData, BadData, TruncData}

\* Rows of three fields carry this payload.
LongRowPayloads == {BadData}

RowShapes(i) ==
    {<<IdOf(i)>>}
      \cup {<<IdOf(i), d>> : d \in Payloads}
      \cup {<<IdOf(i), d, "extra">> : d \in LongRowPayloads}

Inputs ==
    UNION {{f \in [1..n -> UNION {RowShapes(i) : i \in 1..n}] :
               \A i \in 1..n : f[i] \in RowShapes(i)} : n \in 0..MaxRows}

(***************************************************************************)
(* Paths and the file system                                               *)
(***************************************************************************)
Exts == {"jpeg", "png", "txt"}

Path(dir, name, ext) == [dir |-> dir, name |-> name, ext |-> ext]

NoPath == Path("", "", "")

OutPaths == {Path(outputDir, IdOf(i), e) : i \in 1..MaxRows, e \in Exts}

Old == [j \in 1..MaxOld |-> "old"]

\* The output directory before the first run: absent, or present and holding
\* an earlier file at every output path.
InitialFs ==
    {[dirs |-> {}, exists |-> {}, content |-> [p \in OutPaths |-> <<>>]],
     [dirs |-> {outputDir}, exists |-> OutPaths, content |-> [p \in OutPaths |-> Old]]}

\* os.MkdirAll(dir): succeeds when dir exists, else when it can be created.
MkdirAllOk(dir) == dir \in fs.dirs \/ creatable

MkdirAll(f, dir) == [f EXCEPT !.dirs = @ \cup {dir}]

\* The outcomes os.OpenFile(p, O_WRONLY|O_CREATE) can have.
OpenChoices(f, p) ==
    IF p.dir \notin f.dirs \/ p \notin OutPaths THEN {FALSE}
    ELSE IF p \in perm.ok THEN {TRUE}
    ELSE IF p \in perm.no THEN {FALSE}
    ELSE BOOLEAN

Decide(p, ok) ==
    IF p \notin OutPaths THEN perm
    ELSE IF ok THEN [perm EXCEPT !.ok = @ \cup {p}]
    ELSE [perm EXCEPT !.no = @ \cup {p}]

\* O_WRONLY|O_CREATE: the file is created when absent and otherwise left as is.
OpenFile(f, p) == [f EXCEPT !.exists = @ \cup {p}]

\* A variant that opens the file with O_APPEND.
WriteAppend(old, data) == old \o data

\* Writing `data` at offset 0 of a file holding `old`.
WriteAt(old, data) ==
    IF Len(data) >= Len(old) THEN data
    ELSE data \o SubSeq(old, Len(data) + 1, Len(old))

WriteFile(f, p, data) == [f EXCEPT !.content[p] = WriteAt(@, data)]

(***************************************************************************)
(* Decoding and encoding                                                   *)
(***************************************************************************)
\* base64.NewDecoder is a streaming decoder: it delivers the bytes of the
\* quanta before the first malformed one, then an error.
RECURSIVE GoodPrefix(_)
GoodPrefix(data) ==
    IF data = <<>> \/ Head(data) \notin Quanta THEN <<>>
    ELSE <<Head(data)>> \o GoodPrefix(Tail(data))

RECURSIVE DecodeQuanta(_)
DecodeQuanta(qs) ==
    IF qs = <<>> THEN <<>>
    ELSE QuantumBytes(Head(qs)) \o DecodeQuanta(Tail(qs))

IsPrefix(s, t) == Len(s) <= Len(t) /\ SubSeq(t, 1, Len(s)) = s

\* The formats registered with package image: those of the decoders the program
\* imports, image/jpeg and image/png.  Each has a signature and a header; the
\* PNG signature is cut to its first three bytes.
RegisteredFormats == {"jpeg", "png"}

Magic(f) == IF f = "jpeg" THEN <<"ff", "d8">> ELSE <<"89", "50", "4e">>

Header(f) == IF f = "jpeg" THEN <<"ff", "d8", "ff">> ELSE <<"89", "50", "4e">>

Sniff(bytes) ==
    IF \E f \in RegisteredFormats : IsPrefix(Magic(f), bytes)
    THEN CHOOSE f \in RegisteredFormats : IsPrefix(Magic(f), bytes)
    ELSE ""

\* image.Decode(base64.NewDecoder(base64.StdEncoding, strings.NewReader(data))):
\* the format is the sniffed one even when the codec then fails.
ImageDecode(data) ==
    LET good == GoodPrefix(data)
        bytes == DecodeQuanta(good)
        f == Sniff(bytes)
    IN  IF f = "" THEN [format |-> "", err |-> "image: unknown format", pix |-> <<>>]
        ELSE IF Len(good) < Len(data)
            THEN [format |-> f, err |-> "illegal base64 data", pix |-> <<>>]
        ELSE IF Len(bytes) <= Len(Header(f))
            THEN [format |-> f, err |-> "unexpected EOF", pix |-> <<>>]
        ELSE [format |-> f, err |-> "nil",
              pix |-> SubSeq(bytes, Len(Header(f)) + 1, Len(bytes))]

PngEncode(pix) == Header("png") \o pix

JpegEncode(pix) == Header("jpeg") \o pix

Encode(route, pix) == IF route = "jpeg" THEN JpegEncode(pix) ELSE PngEncode(pix)

\* A variant that sends every decoded image to the PNG encoder.
RouteAllPng(formatString) == "png"

\* The switch on formatString in base64ToImage.
Route(formatString) ==
    CASE formatString = "jpeg" -> "jpeg"
      [] formatString = "png" -> "png"
      [] OTHER -> "dump"

ImageFileName(dir, filename, route) == Path(dir, filename, route)

DumpFileName(dir, filename) == Path(dir, filename, "txt")

DumpText(data) == data \o <<"\n">>

(***************************************************************************)
(* Console lines                                                           *)
(***************************************************************************)
Ln(k, f, p) == [k |-> k, f |-> f, p |-> p]

(***************************************************************************)
(* Initial state                                                           *)
(***************************************************************************)
NewCall ==
    [id |-> "", data |-> <<>>, pc |-> "idle", output |-> <<>>, printed |-> <<>>, route |-> "", caller |-> "",
     open |-> {}, opened |-> {}, eres |-> "", dres |-> "", dout |-> <<>>,
     encW |-> "?", dumpW |-> "?"]

\* The state when the process starts, the environment still undecided.
Start ==
    /\ csvReadable \in BOOLEAN
    /\ rows \in (IF csvReadable THEN Inputs ELSE {<<>>})
    /\ fs \in InitialFs
    /\ creatable \in (IF fs.dirs = {} THEN BOOLEAN ELSE {TRUE})
    /\ mainpc = "parse"
    /\ pos = 0
    /\ fieldsPerRecord = 0
    /\ wg = 0
    /\ exitCode = -1
    /\ finalMsg = FALSE
    /\ run = 1
    /\ snap = fs

Init ==
    /\ Start
    /\ perm = [ok |-> {}, no |-> {}]
    /\ w = [i \in 1..MaxRows |-> NewCall]

\* The same, with the environment decided up front: every output path can be
\* opened or none can, and every write is delivered whole or none is; the
\* payloads are a JPEG, a PNG or one that does not decode.
TwiceInit ==
    /\ Start
    /\ \A i \in 1..Len(rows) :
         Len(rows[i]) >= 2 => rows[i][2] \in {JpegData, PngData, BadData}
    /\ perm \in {[ok |-> OutPaths, no |-> {}], [ok |-> {}, no |-> OutPaths]}
    /\ \E how \in {"ok", "short"} :
         w = [i \in 1..MaxRows |-> [NewCall EXCEPT !.encW = how, !.dumpW = how]]

\* A variant in which every goroutine is handed the first row's identifier.
IdShared(i) == rows[1][1]

\* id, data := record[0], record[1]
Id(i) == rows[i][1]

Data(i) == rows[i][2]

Alive == mainpc \notin {"done", "fatal", "panic"}

(***************************************************************************)
(* main (concurrent variant)                                               *)
(***************************************************************************)
\* A variant that starts the goroutine without counting it.
WgAddNone(c) == c

WgAdd(c) == c + 1

WgDone(c) == c - 1

\* parseCSV, and main's log.Fatalln when it fails.
MParse ==
    /\ mainpc = "parse"
    /\ IF csvReadable
       THEN mainpc' = "read" /\ exitCode' = exitCode
       ELSE mainpc' = "fatal" /\ exitCode' = 1
    /\ UNCHANGED <<rows, csvReadable, creatable, fs, perm, pos, fieldsPerRecord,
                   wg, finalMsg, w, run, snap>>

\* A variant of the reader that demands exactly two fields of every row.
ReadResultStrict ==
    IF pos >= Len(rows) THEN "eof"
    ELSE IF Len(rows[pos + 1]) # 2 THEN "error"
    ELSE "ok"

\* What reader.Read() returns for the next row, and what main does with it up
\* to indexing record[0], record[1]: "eof", "error" (csv.ErrFieldCount),
\* "panic" (index out of range) or "ok".
ReadResult ==
    IF pos >= Len(rows) THEN "eof"
    ELSE LET n == Len(rows[pos + 1])
         IN  IF fieldsPerRecord # 0 /\ n # fieldsPerRecord THEN "error"
             ELSE IF n < 2 THEN "panic"
             ELSE "ok"

MRead ==
    /\ mainpc = "read"
    /\ LET r == ReadResult
       IN  /\ mainpc' = CASE r = "eof" -> "wait"
                          [] r = "error" -> "fatal"
                          [] r = "panic" -> "panic"
                          [] OTHER -> "dispatch"
           /\ exitCode' = CASE r = "error" -> 1
                            [] r = "panic" -> 2
                            [] OTHER -> exitCode
           /\ pos' = IF r = "eof" THEN pos ELSE pos + 1
           /\ fieldsPerRecord' = IF r \in {"ok", "panic"} /\ fieldsPerRecord = 0
                                 THEN Len(rows[pos + 1]) ELSE fieldsPerRecord
    /\ UNCHANGED <<rows, csvReadable, creatable, fs, perm, wg, finalMsg, w, run, snap>>

\* wg.Add(1); go base64ToImage(data, id, *outputDir, &wg)
MDispatch ==
    /\ mainpc = "dispatch"
    /\ wg' = WgAdd(wg)
    /\ w' = [w EXCEPT ![pos] = [@ EXCEPT !.pc = "pending", !.id = Id(pos),
                                          !.data = Data(pos)]]
    /\ mainpc' = "read"
    /\ UNCHANGED <<rows, csvReadable, creatable, fs, perm, pos, fieldsPerRecord,
                   exitCode, finalMsg, run, snap>>

\* wg.Wait() returns when the counter is zero; main prints and returns.
MWait ==
    /\ mainpc = "wait"
    /\ wg = 0
    /\ finalMsg' = TRUE
    /\ mainpc' = "done"
    /\ exitCode' = 0
    /\ UNCHANGED <<rows, csvReadable, creatable, fs, perm, pos, fieldsPerRecord,
                   wg, w, run, snap>>

(***************************************************************************)
(* base64ToImage and its callees (concurrent variant), one goroutine per   *)
(* row.  pc: idle -> pending -> decoding -> enc_* | dump_* -> done.        *)
(***************************************************************************)
Say(wi, line) == [wi EXCEPT !.output = @ \o <<line>>]

\* The function returns: deferred f.Close() calls run, base64ToImage prints
\* its output unless it returned early, and the deferred wg.Done() runs.
Return(wi, print) ==
    [wi EXCEPT !.pc = "done", !.open = {},
               !.printed = IF print THEN @ \o wi.output ELSE @]

\* The string dumpData builds and returns.
DumpOutput(p, res) ==
    <<Ln("Dumping data to", "", p)>>
      \o (CASE res = "mkdir" -> <<Ln("Failed create output directory", "", NoPath)>>
            [] res \in {"open", "write"} -> <<Ln("Failed to write to dump file", "", NoPath)>>
            [] OTHER -> <<>>)

\* A variant that goes back to decoding after a dump.
DumpRetry(wi, res) == [wi EXCEPT !.dres = res, !.pc = "decoding"]

\* dumpData returns to its caller, which drops the string it returns (dout);
\* after a decode error base64ToImage returns at once, without printing its
\* output.
DumpReturn(wi, res) ==
    Return([wi EXCEPT !.dres = res,
                      !.dout = DumpOutput(DumpFileName(outputDir, wi.id), res)],
           wi.caller # "decode")

Step(i, wi, done) ==
    /\ w' = [w EXCEPT ![i] = wi]
    /\ wg' = IF done THEN WgDone(wg) ELSE wg

WBegin(i) ==
    /\ Alive
    /\ w[i].pc = "pending"
    /\ Step(i, Say([w[i] EXCEPT !.pc = "decoding"], Ln("Attempting to decode", "", NoPath)),
            FALSE)
    /\ UNCHANGED <<rows, csvReadable, creatable, fs, perm, mainpc, pos,
                   fieldsPerRecord, exitCode, finalMsg, run, snap>>

WDecode(i) ==
    /\ Alive
    /\ w[i].pc = "decoding"
    /\ LET d == ImageDecode(w[i].data)
           w1 == Say(w[i], Ln("Format", d.format, NoPath))
           r == Route(d.format)
       IN  IF d.err # "nil"
           THEN Step(i, [w1 EXCEPT !.pc = "dump_open", !.caller = "decode",
                                   !.printed = @ \o <<Ln("Parsing error", d.err, NoPath)>>],
                     FALSE)
           ELSE IF r = "dump"
           THEN Step(i, Say([w1 EXCEPT !.pc = "dump_open", !.caller = "default",
                                       !.route = r],
                            Ln("Unrecognized image format", d.format, NoPath)),
                     FALSE)
           ELSE Step(i, Say([w1 EXCEPT !.pc = "enc_open", !.route = r],
                            Ln("Writing to", "", ImageFileName(outputDir, w[i].id, r))),
                     FALSE)
    /\ UNCHANGED <<rows, csvReadable, creatable, fs, perm, mainpc, pos,
                   fieldsPerRecord, exitCode, finalMsg, run, snap>>

\* encodeToPNG / encodeToJPEG: os.MkdirAll(outputDir, 0777), then
\* os.OpenFile(name, os.O_WRONLY|os.O_CREATE, 0777)
EncOpen(i) ==
    /\ Alive
    /\ w[i].pc = "enc_open"
    /\ LET p == ImageFileName(outputDir, w[i].id, w[i].route)
           f == MkdirAll(fs, outputDir)
       IN  IF ~MkdirAllOk(outputDir)
           THEN /\ fs' = fs
                /\ perm' = perm
                /\ Step(i, Return(Say([w[i] EXCEPT !.eres = "mkdir"],
                                      Ln("Failed create output directory", "", NoPath)),
                                  TRUE),
                        TRUE)
           ELSE \E ok \in OpenChoices(f, p) :
                  /\ perm' = Decide(p, ok)
                  /\ IF ok
                     THEN /\ fs' = OpenFile(f, p)
                          /\ Step(i, [w[i] EXCEPT !.pc = "enc_write", !.open = @ \cup {p},
                                                  !.opened = @ \cup {p}],
                                  FALSE)
                     ELSE /\ fs' = f
                          /\ Step(i, Return(Say([w[i] EXCEPT !.eres = "open"],
                                                Ln("Failed to write file", "", p)),
                                            TRUE),
                                  TRUE)
    /\ UNCHANGED <<rows, csvReadable, creatable, mainpc, pos,
                   fieldsPerRecord, exitCode, finalMsg, run, snap>>

\* How many tokens a write of `data` delivers: all of them ("ok"), or the first
\* one and then an error ("short").
WriteChoices(decided) == IF decided = "?" THEN {"ok", "short"} ELSE {decided}

Delivered(how, data) == IF how = "ok" THEN data ELSE SubSeq(data, 1, 1)

\* encodeToPNG / encodeToJPEG: png.Encode(f, image) / jpeg.Encode(f, image, ...)
EncWrite(i) ==
    /\ Alive
    /\ w[i].pc = "enc_write"
    /\ LET p == ImageFileName(outputDir, w[i].id, w[i].route)
           bytes == Encode(w[i].route, ImageDecode(w[i].data).pix)
       IN  \E how \in WriteChoices(w[i].encW) :
             /\ fs' = WriteFile(fs, p, Delivered(how, bytes))
             /\ IF how = "ok"
                THEN Step(i, Return(Say([w[i] EXCEPT !.eres = "ok", !.encW = how],
                                        Ln("Created", "", p)),
                                    TRUE),
                          TRUE)
                ELSE Step(i, Say([w[i] EXCEPT !.eres = "encode", !.encW = how,
                                              !.pc = "dump_open", !.caller = "encode"],
                                 Ln("Parsing error", "encode", NoPath)),
                          FALSE)
    /\ UNCHANGED <<rows, csvReadable, creatable, perm, mainpc, pos,
                   fieldsPerRecord, exitCode, finalMsg, run, snap>>

\* dumpData: os.MkdirAll(outputDir, 0777), then
\* os.OpenFile(dumpFileName, os.O_WRONLY|os.O_CREATE, 0777)
DumpOpen(i) ==
    /\ Alive
    /\ w[i].pc = "dump_open"
    /\ LET p == DumpFileName(outputDir, w[i].id)
           f == MkdirAll(fs, outputDir)
       IN  IF ~MkdirAllOk(outputDir)
           THEN /\ fs' = fs
                /\ perm' = perm
                /\ Step(i, DumpReturn(w[i], "mkdir"), TRUE)
           ELSE \E ok \in OpenChoices(f, p) :
                  /\ perm' = Decide(p, ok)
                  /\ IF ok
                     THEN /\ fs' = OpenFile(f, p)
                          /\ Step(i, [w[i] EXCEPT !.pc = "dump_write", !.open = @ \cup {p},
                                                  !.opened = @ \cup {p}],
                                  FALSE)
                     ELSE /\ fs' = f
                          /\ Step(i, DumpReturn(w[i], "open"), TRUE)
    /\ UNCHANGED <<rows, csvReadable, creatable, mainpc, pos,
                   fieldsPerRecord, exitCode, finalMsg, run, snap>>

\* dumpData: f.WriteString(data + "\n")
DumpWrite(i) ==
    /\ Alive
    /\ w[i].pc = "dump_write"
    /\ LET p == DumpFileName(outputDir, w[i].id)
           text == DumpText(w[i].data)
       IN  \E how \in WriteChoices(w[i].dumpW) :
             /\ fs' = WriteFile(fs, p, Delivered(how, text))
             /\ Step(i, DumpReturn([w[i] EXCEPT !.dumpW = how],
                                   IF how = "ok" THEN "ok" ELSE "write"),
                     TRUE)
    /\ UNCHANGED <<rows, csvReadable, creatable, perm, mainpc, pos,
                   fieldsPerRecord, exitCode, finalMsg, run, snap>>

Worker(i) ==
    \/ WBegin(i)
    \/ WDecode(i)
    \/ EncOpen(i)
    \/ EncWrite(i)
    \/ DumpOpen(i)
    \/ DumpWrite(i)

Main == MParse \/ MRead \/ MDispatch \/ MWait

Next == Main \/ \E i \in 1..MaxRows : Worker(i)

Spec == Init /\ [][Next]_vars

\* The Go scheduler runs every runnable goroutine eventually: a step that is
\* possible is not postponed for ever.
FairSpec == Spec /\ WF_vars(Next)

(***************************************************************************)
(* A second run of the program on the same CSV file and output directory:  *)
(* a fresh process, the file system and the environment as the first run   *)
(* left them.                                                              *)
(***************************************************************************)
Rerun ==
    /\ run = 1
    /\ mainpc \in {"done", "fatal", "panic"}
    /\ run' = 2
    /\ snap' = fs
    /\ mainpc' = "parse"
    /\ pos' = 0
    /\ fieldsPerRecord' = 0
    /\ wg' = 0
    /\ exitCode' = -1
    /\ finalMsg' = FALSE
    /\ w' = [i \in 1..MaxRows |->
               [NewCall EXCEPT !.encW = w[i].encW, !.dumpW = w[i].dumpW]]
    /\ UNCHANGED <<rows, csvReadable, creatable, fs, perm>>

TwiceNext == Next \/ Rerun

TwiceSpec == TwiceInit /\ [][TwiceNext]_vars

(***************************************************************************)
(* The sequential variant (src/csv-image.go lines 1-177): main calls       *)
(* base64ToImage inline, every function prints as it goes, and output      *)
(* failures end the process through log.Fatalln.                           *)
(***************************************************************************)
Printf(wi, line) == [wi EXCEPT !.printed = @ \o <<line>>]

\* The switch on formatString in the sequential base64ToImage.
SeqRoute(formatString) == IF formatString = "jpeg" THEN "jpeg" ELSE "png"

\* fmt.Sprintf("%s/%s.txt", filename): the directory argument is missing, so
\* the file name takes the directory's place.
SeqDumpFileName(filename) == Path(filename, "%!s(MISSING)", "txt")

\* log.Fatalln: the process exits with status 1.
SeqFatal(i, wi) ==
    /\ w' = [w EXCEPT ![i] = wi]
    /\ mainpc' = "fatal"
    /\ exitCode' = 1

\* The call returns to main's loop.
SeqReturn(i, wi) ==
    /\ w' = [w EXCEPT ![i] = [wi EXCEPT !.pc = "done", !.open = {}]]
    /\ mainpc' = "read"
    /\ exitCode' = exitCode

\* The call goes on to dumpData.
SeqToDump(i, wi, caller) ==
    /\ w' = [w EXCEPT ![i] = [wi EXCEPT !.pc = "sdump", !.caller = caller]]
    /\ mainpc' = mainpc
    /\ exitCode' = exitCode

\* main's loop: reader.Read(), the two fatal checks, record[0], record[1] and
\* the call of base64ToImage; after io.EOF, the closing message.
SeqRead ==
    /\ mainpc = "read"
    /\ LET r == ReadResult
       IN  /\ mainpc' = CASE r = "eof" -> "done"
                          [] r = "error" -> "fatal"
                          [] r = "panic" -> "panic"
                          [] OTHER -> "busy"
           /\ exitCode' = CASE r = "eof" -> 0
                            [] r = "error" -> 1
                            [] r = "panic" -> 2
                            [] OTHER -> exitCode
           /\ finalMsg' = (r = "eof")
           /\ pos' = IF r = "eof" THEN pos ELSE pos + 1
           /\ fieldsPerRecord' = IF r \in {"ok", "panic"} /\ fieldsPerRecord = 0
                                 THEN Len(rows[pos + 1]) ELSE fieldsPerRecord
           /\ w' = IF r = "ok"
                   THEN [w EXCEPT ![pos + 1] = [@ EXCEPT !.pc = "call", !.id = Id(pos + 1),
                                                        !.data = Data(pos + 1)]]
                   ELSE w
    /\ UNCHANGED <<rows, csvReadable, creatable, fs, perm, wg, run, snap>>

SeqBase64ToImage(i) ==
    /\ mainpc = "busy"
    /\ w[i].pc = "call"
    /\ LET d == ImageDecode(w[i].data)
           w1 == Printf(Printf(w[i], Ln("Attempting to decode", "", NoPath)),
                       Ln("Format", d.format, NoPath))
           r == SeqRoute(d.format)
       IN  IF d.err # "nil"
           THEN SeqToDump(i, Printf(w1, Ln("Parsing error", d.err, NoPath)), "decode")
           ELSE /\ w' = [w EXCEPT ![i] = [w1 EXCEPT !.route = r,
                                                    !.pc = IF r = "jpeg" THEN "sjpeg" ELSE "spng"]]
                /\ UNCHANGED <<mainpc, exitCode>>
    /\ UNCHANGED <<rows, csvReadable, creatable, fs, perm, pos, fieldsPerRecord,
                   wg, finalMsg, run, snap>>

\* The part the two encoders share: os.OpenFile, then png.Encode / jpeg.Encode
\* on a file system f in which the output directory exists.
SeqOpenAndEncode(i, wi, f, p) ==
    \E ok \in OpenChoices(f, p) :
      /\ perm' = Decide(p, ok)
      /\ IF ~ok
         THEN /\ fs' = f
              /\ SeqFatal(i, Printf([wi EXCEPT !.eres = "open"],
                                   Ln("Failed to write file", "", p)))
         ELSE \E how \in WriteChoices(wi.encW) :
                LET bytes == Encode(wi.route, ImageDecode(wi.data).pix)
                    wo == [wi EXCEPT !.encW = how, !.open = @ \cup {p},
                                     !.opened = @ \cup {p}]
                IN  /\ fs' = WriteFile(OpenFile(f, p), p, Delivered(how, bytes))
                    /\ IF how = "ok"
                       THEN SeqReturn(i, Printf([wo EXCEPT !.eres = "ok"],
                                               Ln("Created", "", p)))
                       ELSE SeqToDump(i, Printf([wo EXCEPT !.eres = "encode"],
                                               Ln("Parsing error", "encode", NoPath)),
                                      "encode")

\* os.Stat finds no output directory: os.Mkdir, fatal when it fails.
SeqEncodeToPNG(i) ==
    /\ mainpc = "busy"
    /\ w[i].pc = "spng"
    /\ LET p == ImageFileName(outputDir, w[i].id, "png")
           w1 == Printf(w[i], Ln("Writing to", "", p))
       IN  IF outputDir \notin fs.dirs /\ ~creatable
           THEN /\ fs' = fs
                /\ perm' = perm
                /\ SeqFatal(i, Printf([w1 EXCEPT !.eres = "mkdir"],
                                     Ln("Failed create output directory", "", NoPath)))
           ELSE SeqOpenAndEncode(i, w1, MkdirAll(fs, outputDir), p)
    /\ UNCHANGED <<rows, csvReadable, creatable, pos, fieldsPerRecord,
                   wg, finalMsg, run, snap>>

\* os.Stat finds no output directory: fatal (nothing creates it).
SeqEncodeToJPEG(i) ==
    /\ mainpc = "busy"
    /\ w[i].pc = "sjpeg"
    /\ LET p == ImageFileName(outputDir, w[i].id, "jpeg")
           w1 == Printf(w[i], Ln("Writing to", "", p))
       IN  IF outputDir \notin fs.dirs
           THEN /\ fs' = fs
                /\ perm' = perm
                /\ SeqFatal(i, Printf([w1 EXCEPT !.eres = "mkdir"],
                                     Ln("Failed create output directory", "", NoPath)))
           ELSE SeqOpenAndEncode(i, w1, fs, p)
    /\ UNCHANGED <<rows, csvReadable, creatable, pos, fieldsPerRecord,
                   wg, finalMsg, run, snap>>

SeqDumpData(i) ==
    /\ mainpc = "busy"
    /\ w[i].pc = "sdump"
    /\ LET p == SeqDumpFileName(w[i].id)
           w1 == Printf(w[i], Ln("Dumping data to", "", p))
       IN  IF outputDir \notin fs.dirs
           THEN /\ fs' = fs
                /\ perm' = perm
                /\ SeqFatal(i, Printf([w1 EXCEPT !.dres = "mkdir"],
                                     Ln("Failed create output directory", "", NoPath)))
           ELSE \E ok \in OpenChoices(fs, p) :
                  /\ perm' = Decide(p, ok)
                  /\ IF ~ok
                     THEN /\ fs' = fs
                          /\ SeqFatal(i, [w1 EXCEPT !.dres = "open"])
                     ELSE \E how \in WriteChoices(w1.dumpW) :
                            /\ fs' = WriteFile(OpenFile(fs, p), p,
                                               Delivered(how, DumpText(w1.data)))
                            /\ SeqReturn(i, [w1 EXCEPT !.dumpW = how, !.dres = "ok",
                                                       !.opened = @ \cup {p}])
    /\ UNCHANGED <<rows, csvReadable, creatable, pos, fieldsPerRecord,
                   wg, finalMsg, run, snap>>

SeqCall(i) ==
    \/ SeqBase64ToImage(i)
    \/ SeqEncodeToPNG(i)
    \/ SeqEncodeToJPEG(i)
    \/ SeqDumpData(i)

SeqNext == MParse \/ SeqRead \/ \E i \in 1..MaxRows : SeqCall(i)

SeqSpec == Init /\ [][SeqNext]_vars

(***************************************************************************)
(* Properties                                                              *)
(***************************************************************************)
Decoded(i) == ImageDecode(w[i].data)

Routed(i) == w[i].pc \notin {"idle", "pending", "decoding", "call"}

ImagePaths(i) == {p \in w[i].opened : p.ext # "txt"}

TxtPath(i) == Path(outputDir, rows[i][1], "txt")

Ended == mainpc \in {"done", "fatal", "panic"}

\* C1: a record whose payload decodes is routed by its detected format: "jpeg"
\* to the JPEG encoder and <outputDir>/<id>.jpeg, any other format to the PNG
\* encoder and <outputDir>/<id>.png.  base64ToImage never sends it to the dump
\* (a .txt is only written by the encoder after its own failure), it opens no
\* image file under another extension, and once the encoder has succeeded the
\* file holds the encoded image and no .txt was written.
C1_FormatRouting ==
    \A i \in 1..MaxRows :
      (Routed(i) /\ Decoded(i).err = "nil") =>
        LET ext == IF Decoded(i).format = "jpeg" THEN "jpeg" ELSE "png"
            p == Path(outputDir, rows[i][1], ext)
        IN  /\ w[i].route = ext
            /\ w[i].caller \notin {"decode", "default"}
            /\ ImagePaths(i) \subseteq {p}
            /\ (TxtPath(i) \in w[i].opened => w[i].eres = "encode")
            /\ (w[i].eres = "ok" =>
                  /\ p \in fs.exists
                  /\ IsPrefix(Encode(ext, Decoded(i).pix), fs.content[p])
                  /\ w[i].opened = {p})

C1_Witness ==
    \E i, j \in 1..MaxRows :
      /\ w[i].pc = "done" /\ w[i].eres = "ok" /\ Decoded(i).format = "jpeg"
      /\ w[j].pc = "done" /\ w[j].eres = "ok" /\ Decoded(j).format = "png"

\* C2: a record whose payload fails to decode, once Done (its dump having met
\* no I/O error), has <outputDir>/<id>.txt holding exactly the payload and one
\* newline, and no <id>.jpeg or <id>.png was created for it.
C2_FallbackDump ==
    \A i \in 1..MaxRows :
      (w[i].pc = "done" /\ Decoded(i).err # "nil" /\ w[i].dres = "ok") =>
        /\ TxtPath(i) \in fs.exists
        /\ fs.content[TxtPath(i)] = DumpText(rows[i][2])
        /\ ImagePaths(i) = {}

\* C3: when every row is read without a Record Source error, no decode,
\* encode, output-directory, output-file or dump failure ends the process
\* early: the exit code is never nonzero, and when main has finished every
\* record is Done and the completion message is printed.
C3_NoAbort ==
    (csvReadable /\ \A i \in 1..Len(rows) : Len(rows[i]) = 2) =>
      /\ mainpc \notin {"fatal", "panic"}
      /\ exitCode \in {-1, 0}
      /\ (mainpc = "done" =>
            finalMsg /\ exitCode = 0 /\ \A i \in 1..Len(rows) : w[i].pc = "done")

C5_Barrier ==
    /\ wg >= 0
    /\ wg = Cardinality({i \in 1..MaxRows : w[i].pc \notin {"idle", "done"}})
    /\ (finalMsg => \A i \in 1..Len(rows) : w[i].pc = "done")

C5_Witness == finalMsg /\ Len(rows) >= 2

\* C6 as claimed: after a second run on the same input and output directory,
\* the output files are those the first run left, byte for byte.
C6_Idempotent == (run = 2 /\ Ended) => fs = snap

\* C6 as amended: the same, for a second run that ends normally (no Record
\* Source error aborted the runs).
C6_IdempotentCompleted == (run = 2 /\ mainpc = "done") => fs = snap

C6_Witness ==
    /\ run = 2 /\ mainpc = "done"
    /\ \E i, j \in 1..MaxRows : w[i].eres = "ok" /\ w[j].dres = "ok"

\* C7: after a successful write of an image or of a dump to a file that
\* already existed, the file holds exactly the bytes written and nothing of
\* its earlier content.
C7_Truncate ==
    \A i \in 1..MaxRows :
      w[i].pc = "done" =>
        /\ (w[i].eres = "ok" =>
              fs.content[Path(outputDir, rows[i][1], w[i].route)]
                = Encode(w[i].route, Decoded(i).pix))
        /\ (w[i].dres = "ok" => fs.content[TxtPath(i)] = DumpText(rows[i][2]))

Says(i, kinds) == \E n \in 1..Len(w[i].printed) : w[i].printed[n].k \in kinds

SaysPath(i, kind, p) ==
    \E n \in 1..Len(w[i].printed) :
      w[i].printed[n].k = kind /\ w[i].printed[n].p = p

ReportsSuccess(i) ==
    /\ Says(i, {"Format"})
    /\ \E e \in {"jpeg", "png"} : SaysPath(i, "Created", Path(outputDir, rows[i][1], e))

ReportsFailure(i) ==
    /\ Says(i, {"Parsing error", "Unrecognized image format",
                "Failed create output directory", "Failed to write file"})
    /\ SaysPath(i, "Dumping data to", TxtPath(i))

\* C8: for every finished record the console shows either its success (the
\* detected format and the path written) or its failure (the reason and the
\* path of the dump file), and not both.
C8_Reporting ==
    \A i \in 1..MaxRows :
      w[i].pc = "done" => (ReportsSuccess(i) # ReportsFailure(i))

Stage(pc) ==
    CASE pc = "idle" -> "None"
      [] pc = "pending" -> "Pending"
      [] pc = "decoding" -> "Decoding"
      [] pc \in {"enc_open", "enc_write"} -> "Encoding"
      [] pc \in {"dump_open", "dump_write"} -> "Dumping"
      [] pc = "done" -> "Done"

Moves ==
    {<<"None", "Pending">>, <<"Pending", "Decoding">>, <<"Decoding", "Encoding">>,
     <<"Decoding", "Dumping">>, <<"Encoding", "Dumping">>, <<"Encoding", "Done">>,
     <<"Dumping", "Done">>}

MoveOk(i) ==
    LET a == Stage(w[i].pc)
        b == Stage(w'[i].pc)
    IN  /\ (a # b => <<a, b>> \in Moves)
        /\ (a = b => \/ w'[i].pc = w[i].pc
                      \/ <<w[i].pc, w'[i].pc>> \in {<<"enc_open", "enc_write">>,
                                                    <<"dump_open", "dump_write">>})
        /\ (a = "Decoding" /\ b # a => (b = "Dumping") = (Decoded(i).err # "nil"))

\* C9 as claimed: a record moves only along Pending -> Decoding -> (Encoding |
\* Dumping) -> Done and Encoding -> Dumping, no stage is entered twice, and
\* every failure at Encoding (directory, file or encode) sends it to Dumping.
C9_StateMachine ==
    [][\A i \in 1..MaxRows :
         /\ MoveOk(i)
         /\ (Stage(w[i].pc) = "Encoding" /\ Stage(w'[i].pc) = "Done" => w'[i].eres = "ok")]_vars

\* C9 as amended: the same moves; at Encoding a failed encode sends the
\* record to Dumping, while a failure to create the output directory or the
\* file ends it at Done without a dump; and under fair scheduling every
\* dispatched record reaches Done unless a Record Source error on a later row
\* has ended the process.
C9_StateMachineAmended ==
    /\ [][\A i \in 1..MaxRows :
            /\ MoveOk(i)
            /\ (Stage(w[i].pc) = "Encoding" /\ Stage(w'[i].pc) = "Done"
                  => w'[i].eres \in {"ok", "mkdir", "open"})
            /\ (Stage(w[i].pc) = "Encoding" /\ Stage(w'[i].pc) = "Dumping"
                  => w'[i].eres = "encode")]_vars
    /\ \A i \in 1..MaxRows :
         (w[i].pc = "pending") ~> (w[i].pc = "done" \/ mainpc \in {"fatal", "panic"})

C9_Witness ==
    \E i, j \in 1..MaxRows :
      /\ w[i].pc = "done" /\ w[i].eres = "encode" /\ w[i].dres = "ok"
      /\ w[j].pc = "done" /\ w[j].eres = "open" /\ w[j].dres = ""

\* C10: when the row identifiers are pairwise distinct, no output path is ever
\* opened by two workers, and creating the output directory never fails once
\* the directory exists.
C10_NoContention ==
    (\A i, j \in 1..Len(rows) : i # j => rows[i][1] # rows[j][1]) =>
      /\ \A i, j \in 1..MaxRows : i # j => w[i].opened \cap w[j].opened = {}
      /\ ((\E i \in 1..MaxRows : "mkdir" \in {w[i].eres, w[i].dres})
            => outputDir \notin fs.dirs)

C10_Witness ==
    \E i, j \in 1..MaxRows : i # j /\ w[i].open # {} /\ w[j].open # {}

====
